---- MODULE Spec2Model ----
(***************************************************************************)
(* A model of dask/diagnostics/profile.py: the task-level Profiler.        *)
(*                                                                         *)
(* The profiler keeps three fields:                                        *)
(*   _results  the pending table, a dict  key -> tuple                     *)
(*   results   the log, a list of TaskData tuples                          *)
(*   _dsk      the graph snapshot, a dict  key -> task                     *)
(*                                                                         *)
(* A dict is modelled with the iteration order of Python >= 3.7: a         *)
(* sequence of <<key, value>> pairs in order of first insertion; storing   *)
(* under an existing key keeps the key's position.                         *)
(***************************************************************************)
EXTENDS Integers, Sequences, FiniteSets, TLC

\* ------------------------------------------------------------------ bounds
\* The largest reading of default_timer().
MaxTime == 1
\* The number of steps (profiler calls and engine edits) in one run.
MaxSteps == 6

\* ------------------------------------------------------------ input domains
Keys == {"a", "b"}
Workers == {"w1", "w2"}
NoKey == "-"

\* A dict with no items.
EmptyDict == << >>

\* The graphs the engine may hold: key -> task.  G2 drops key b and changes
\* the task of key a.
G1 == <<<<"a", "add">>, <<"b", "mul">>>>
G2 == <<<<"a", "mul">>>>
Graphs == {G1, G2}

\* -------------------------------------------------------------------- dicts
DictKeys(d) == {d[i][1] : i \in DOMAIN d}
HasKey(d, k) == k \in DictKeys(d)
GetItem(d, k) == d[CHOOSE i \in DOMAIN d : d[i][1] = k][2]
SetItemMoveToEnd(d, k, v) ==
    Append(SelectSeq(d, LAMBDA e : e[1] # k), <<k, v>>)
SetItemAppendAlways(d, k, v) == Append(d, <<k, v>>)
SetItem(d, k, v) ==
    IF HasKey(d, k)
    THEN [i \in DOMAIN d |-> IF d[i][1] = k THEN <<k, v>> ELSE d[i]]
    ELSE Append(d, <<k, v>>)
DictValues(d) == [i \in DOMAIN d |-> d[i][2]]

\* --------------------------------------------------------------------- state
VARIABLES
    _results,   \* Profiler._results: the pending table
    results,    \* Profiler.results: the log
    _dsk,       \* Profiler._dsk: the graph snapshot
    reader,     \* the list object a reader got from the results attribute
    active,     \* whether the profiler is registered with the engine
    graph,      \* the engine's graph, handed to the callbacks as dsk
    now,        \* the last reading of default_timer()
    pc,         \* worker thread -> position inside its callbacks
    tmp,        \* worker thread -> its local variables
    last,       \* the call made last: [op, key, raised]
    nBefore,    \* len(results) when the last call was entered
    trace,      \* the task callbacks of the latest execution that returned
    stale,      \* TRUE when trace describes an execution that has ended
    nsteps,     \* the number of steps taken so far
    inflight    \* the keys the engine has started and not yet finished

prof == <<_results, results, _dsk, reader>>
threads == <<pc, tmp>>
ghost == <<last, nBefore, trace, stale, nsteps, inflight>>
vars == <<_results, results, _dsk, reader, active, graph, now, pc, tmp,
          last, nBefore, trace, stale, nsteps, inflight>>

\* Two worker threads of the engine, the key each one runs and the worker
\* id the engine reports for it.
Threads == {"T1", "T2"}
KeyOf == [t \in Threads |-> IF t = "T1" THEN "a" ELSE "b"]
IdOf == [t \in Threads |-> IF t = "T1" THEN "w1" ELSE "w2"]
IdleThreads == [t \in Threads |-> "idle"]
NoLocals == [t \in Threads |-> [start |-> 0, end |-> 0, v |-> << >>]]

\* ------------------------------------------------------------- history
\* An execution runs from the moment the pending table was last emptied (by
\* __init__, clear, __enter__ or _finish) to the next _finish.  trace holds
\* the _pretask and _posttask calls of the latest execution that returned
\* normally, in call order; it is kept after _finish, marked stale, until
\* the next task callback.
NoTrace == << >>
Started(key, task, t) == [op |-> "S", key |-> key, task |-> task, t |-> t, id |-> NoKey]
Finished(key, t, id) == [op |-> "F", key |-> key, task |-> NoKey, t |-> t, id |-> id]
Current == IF stale THEN NoTrace ELSE trace
Noted(ev) == Append(Current, ev)
\* The record of a call: what was called, for which key, whether it raised,
\* and whether the profiler was registered when it was called.
Call(op, k, r) == [op |-> op, key |-> k, raised |-> r, wasActive |-> active]
\* Bookkeeping of a call that is no task callback.
Note(op) ==
    /\ nsteps < MaxSteps
    /\ nsteps' = nsteps + 1
    /\ last' = Call(op, NoKey, FALSE)
    /\ nBefore' = Len(results)
    /\ inflight' = IF op = "finish" THEN {} ELSE inflight

\* ------------------------------------------------------- the log object
\* The reference a reader holds: the list the results attribute is bound
\* to, or a list the attribute was bound to before, with its contents.
LiveRef == <<"live">>
\* An assignment of a new list to the attribute leaves the reader with the
\* old list and the contents it had.
Rebinds(r, log) == IF r = LiveRef THEN <<"old", log>> ELSE r
\* del self.results[:] and self.results += ... change the list in place and
\* leave the attribute bound to the same list.
KeepsObject(r, log) == r
\* The contents of the list the reader holds.
Held == IF reader = LiveRef THEN results ELSE reader[2]

\* ----------------------------------------------------------------- __init__
Init ==
    /\ _results = EmptyDict
    /\ results = << >>
    /\ reader = LiveRef
    /\ _dsk = EmptyDict
    /\ active = FALSE
    /\ graph = G1
    /\ now = 0
    /\ pc = IdleThreads
    /\ tmp = NoLocals
    /\ last = Call("init", NoKey, FALSE)
    /\ nBefore = 0
    /\ trace = NoTrace
    /\ stale = FALSE
    /\ nsteps = 0
    /\ inflight = {}

\* -------------------------------------------------------------- environment
\* default_timer() never runs backwards: a reading is at least the last one.
Readings == now .. MaxTime

\* The engine changes its own graph.
EngineEdit ==
    /\ nsteps < MaxSteps
    /\ nsteps' = nsteps + 1
    /\ \E g \in Graphs \ {graph} : graph' = g
    /\ UNCHANGED <<prof, active, now, threads, last, nBefore, trace, stale,
                   inflight>>

\* ------------------------------------------------------------------- clear
KeptLog(log) == log
ClearedLog(log) == << >>
ClearState ==
    /\ _results' = EmptyDict
    /\ results' = ClearedLog(results)
    /\ reader' = KeepsObject(reader, results)
    /\ _dsk' = EmptyDict

clear ==
    /\ Note("clear")
    /\ ClearState
    /\ trace' = NoTrace
    /\ stale' = FALSE
    /\ UNCHANGED <<active, graph, now, threads>>

\* --------------------------------------------------------- __enter__, __exit__
Registered == TRUE
Unregistered == FALSE

EnterWithoutClear ==
    /\ Note("enter")
    /\ active' = Registered
    /\ UNCHANGED <<prof, graph, now, threads, trace, stale>>

__enter__ ==
    /\ Note("enter")
    /\ ClearState
    /\ active' = Registered
    /\ trace' = NoTrace
    /\ stale' = FALSE
    /\ UNCHANGED <<graph, now, threads>>

ExitClears ==
    /\ active
    /\ Note("exit")
    /\ ClearState
    /\ active' = Unregistered
    /\ UNCHANGED <<graph, now, threads, trace, stale>>

__exit__ ==
    /\ active
    /\ Note("exit")
    /\ active' = Unregistered
    /\ UNCHANGED <<prof, graph, now, threads, trace, stale>>

\* ------------------------------------------------------------------- _start
\* dsk.copy() is a new dict with the items dsk has at the call; a profiler
\* that kept dsk itself would hold the engine's own dict instead.
EngineRef == <<<<"ref", "engine">>>>
SameObject(d) == EngineRef
Copy(d) == d
\* What visualize() hands to the plot as dsk: the contents, at the time of
\* reading, of the dict self._dsk is bound to.
Snapshot == IF _dsk = EngineRef THEN graph ELSE _dsk
StartResetsLog ==
    /\ Note("start")
    /\ _dsk' = Copy(graph)
    /\ results' = << >>
    /\ reader' = KeepsObject(reader, results)
    /\ UNCHANGED <<_results, active, graph, now, threads, trace, stale>>

_start ==
    /\ Note("start")
    /\ _dsk' = Copy(graph)
    /\ UNCHANGED <<_results, results, reader, active, graph, now, threads, trace, stale>>

\* ----------------------------------------------------------------- _pretask
PendingEntryPadded(key, dsk, start) == <<key, GetItem(dsk, key), start, start, NoKey>>
PendingEntry(key, dsk, start) == <<key, GetItem(dsk, key), start>>
InsertedIfAbsent(d, key, entry) == IF HasKey(d, key) THEN d ELSE SetItem(d, key, entry)
Inserted(d, key, entry) == SetItem(d, key, entry)
_pretask(key, start) ==
    /\ nsteps < MaxSteps
    /\ nsteps' = nsteps + 1
    /\ nBefore' = Len(results)
    /\ now' = start
    /\ IF HasKey(graph, key)
       THEN /\ _results' = Inserted(_results, key, PendingEntry(key, graph, start))
            /\ last' = Call("pretask", key, FALSE)
            /\ trace' = Noted(Started(key, GetItem(graph, key), start))
            /\ stale' = FALSE
            /\ inflight' = inflight \cup {key}
       ELSE \* dsk[key] raises KeyError
            /\ last' = Call("pretask", key, TRUE)
            /\ UNCHANGED <<_results, trace, stale, inflight>>
    /\ UNCHANGED <<results, reader, _dsk, active, graph, threads>>

\* ---------------------------------------------------------------- _posttask
ExtendedFixedId(v, end, id) == v \o <<end, "w1">>
ExtendedDuration(v, end, id) == v \o <<end - v[3], id>>
Extended(v, end, id) == v \o <<end, id>>
_posttask(key, id, end) ==
    /\ nsteps < MaxSteps
    /\ nsteps' = nsteps + 1
    /\ nBefore' = Len(results)
    /\ now' = end
    /\ inflight' = inflight \ {key}
    /\ IF HasKey(_results, key)
       THEN /\ _results' = SetItem(_results, key,
                                   Extended(GetItem(_results, key), end, id))
            /\ last' = Call("posttask", key, FALSE)
            /\ trace' = Noted(Finished(key, end, id))
            /\ stale' = FALSE
       ELSE \* self._results[key] raises KeyError
            /\ last' = Call("posttask", key, TRUE)
            /\ UNCHANGED <<_results, trace, stale>>
    /\ UNCHANGED <<results, reader, _dsk, active, graph, threads>>

\* ------------------------------------------------------------------ _finish
TaskData(v) == <<v[1], v[2], v[3], v[4], v[5]>>
AtLeastComplete(v) == Len(v) >= 5
Complete(v) == Len(v) = 5
Completed(d) == SelectSeq(d, LAMBDA e : Complete(e[2]))
RawValues(d) == DictValues(d)
NewRecords(d) ==
    LET vs == DictValues(Completed(d))
    IN  [i \in DOMAIN vs |-> TaskData(vs[i])]
Replaced(log, new) == new
Appended(log, new) == log \o new
FinishKeepsTable ==
    /\ Note("finish")
    /\ results' = Appended(results, NewRecords(_results))
    /\ reader' = KeepsObject(reader, results)
    /\ trace' = Current
    /\ stale' = TRUE
    /\ UNCHANGED <<_results, _dsk, active, graph, now, threads>>

_finish ==
    /\ Note("finish")
    /\ results' = Appended(results, NewRecords(_results))
    /\ reader' = KeepsObject(reader, results)
    /\ _results' = EmptyDict
    /\ trace' = Current
    /\ stale' = TRUE
    /\ UNCHANGED <<_dsk, active, graph, now, threads>>

\* -------------------------------------------------------------------- Spec
Next ==
    \/ EngineEdit
    \/ clear
    \/ __enter__
    \/ __exit__
    \/ _start
    \/ \E key \in Keys, start \in Readings : _pretask(key, start)
    \/ \E key \in Keys, id \in Workers, end \in Readings : _posttask(key, id, end)
    \/ _finish

Spec == Init /\ [][Next]_vars

\* ------------------------------------------------- two worker threads
\* _pretask and _posttask as two engine worker threads run them, one key
\* each, a step per access to the shared table.  The interpreter runs one
\* bytecode at a time, so a dict load or store is one step;
\* self._results[key] += (end, id) is a load, an addition on the thread's own
\* stack and a store.
Goto(t, loc) == pc' = [pc EXCEPT ![t] = loc]

PreTimer(t) ==
    /\ pc[t] = "pre_timer"
    /\ \E start \in Readings :
         /\ now' = start
         /\ tmp' = [tmp EXCEPT ![t].start = start]
    /\ Goto(t, "pre_store")
    /\ UNCHANGED <<prof, active, graph, ghost>>

PreStore(t) ==
    /\ pc[t] = "pre_store"
    /\ _results' = Inserted(_results, KeyOf[t],
                            PendingEntry(KeyOf[t], graph, tmp[t].start))
    /\ Goto(t, "post_timer")
    /\ UNCHANGED <<results, reader, _dsk, active, graph, now, tmp, ghost>>

PostTimer(t) ==
    /\ pc[t] = "post_timer"
    /\ \E end \in Readings :
         /\ now' = end
         /\ tmp' = [tmp EXCEPT ![t].end = end]
    /\ Goto(t, "post_load")
    /\ UNCHANGED <<prof, active, graph, ghost>>

LoadedShared(loc, t, v) == [x \in Threads |-> [loc[x] EXCEPT !.v = v]]
Loaded(loc, t, v) == [loc EXCEPT ![t].v = v]
PostLoad(t) ==
    /\ pc[t] = "post_load"
    /\ tmp' = Loaded(tmp, t, GetItem(_results, KeyOf[t]))
    /\ Goto(t, "post_store")
    /\ UNCHANGED <<prof, active, graph, now, ghost>>

PostStore(t) ==
    /\ pc[t] = "post_store"
    /\ _results' = SetItem(_results, KeyOf[t],
                           Extended(tmp[t].v, tmp[t].end, IdOf[t]))
    /\ Goto(t, "done")
    /\ UNCHANGED <<results, reader, _dsk, active, graph, now, tmp, ghost>>

\* The engine calls _finish once its workers have stopped.
WorkersDone == \A t \in Threads : pc[t] = "done"
FinishAfterWorkers == WorkersDone /\ _finish

\* The state after __init__, __enter__ and _start(G1), the workers about to
\* run their tasks.
InitConc ==
    /\ _results = EmptyDict
    /\ results = << >>
    /\ reader = LiveRef
    /\ _dsk = Copy(G1)
    /\ active = Registered
    /\ graph = G1
    /\ now = 0
    /\ pc = [t \in Threads |-> "pre_timer"]
    /\ tmp = NoLocals
    /\ last = [op |-> "start", key |-> NoKey, raised |-> FALSE, wasActive |-> TRUE]
    /\ nBefore = 0
    /\ trace = NoTrace
    /\ stale = FALSE
    /\ nsteps = 2
    /\ inflight = {}

NextConc ==
    \/ \E t \in Threads : PreTimer(t)
    \/ \E t \in Threads : PreStore(t)
    \/ \E t \in Threads : PostTimer(t)
    \/ \E t \in Threads : PostLoad(t)
    \/ \E t \in Threads : PostStore(t)
    \/ FinishAfterWorkers

SpecConc == InitConc /\ [][NextConc]_vars

\* ------------------------------------------- clear() against _finish
\* _finish on the engine thread while the controlling thread runs clear(),
\* a step per access to the profiler's fields; there is no lock in either.
\* _finish iterates self._results.items() item by item (a dict that changed
\* size under the iterator raises RuntimeError), extends self.results in
\* place, then empties the table.  clear() empties the table, then the log,
\* then rebinds _dsk.
Racers == {"engine", "control"}
RaceLocals == [r \in Racers |-> [n |-> 0, i |-> 0, sel |-> << >>]]
Move(r, loc) == pc' = [pc EXCEPT ![r] = loc]

FinishBegin ==
    /\ pc["engine"] = "f_begin"
    /\ tmp' = [tmp EXCEPT !["engine"] = [n |-> Len(_results), i |-> 1, sel |-> << >>]]
    /\ Move("engine", "f_iter")
    /\ UNCHANGED <<prof, active, graph, now, ghost>>

FinishIter ==
    /\ pc["engine"] = "f_iter"
    /\ LET loc == tmp["engine"]
       IN  IF Len(_results) # loc.n
           THEN \* RuntimeError: dictionary changed size during iteration
                /\ Move("engine", "raised")
                /\ UNCHANGED tmp
           ELSE IF loc.i > loc.n
           THEN /\ Move("engine", "f_extend")
                /\ UNCHANGED tmp
           ELSE /\ tmp' = [tmp EXCEPT !["engine"].i = loc.i + 1,
                                      !["engine"].sel =
                                          IF Complete(_results[loc.i][2])
                                          THEN Append(loc.sel, _results[loc.i])
                                          ELSE loc.sel]
                /\ UNCHANGED pc
    /\ UNCHANGED <<prof, active, graph, now, ghost>>

FinishExtend ==
    /\ pc["engine"] = "f_extend"
    /\ results' = Appended(results, NewRecords(tmp["engine"].sel))
    /\ reader' = KeepsObject(reader, results)
    /\ Move("engine", "f_clear")
    /\ UNCHANGED <<_results, _dsk, active, graph, now, tmp, ghost>>

FinishClear ==
    /\ pc["engine"] = "f_clear"
    /\ _results' = EmptyDict
    /\ Move("engine", "done")
    /\ UNCHANGED <<results, reader, _dsk, active, graph, now, tmp, ghost>>

ClearTable ==
    /\ pc["control"] = "c_table"
    /\ _results' = EmptyDict
    /\ Move("control", "c_log")
    /\ UNCHANGED <<results, reader, _dsk, active, graph, now, tmp, ghost>>

ClearLog ==
    /\ pc["control"] = "c_log"
    /\ results' = ClearedLog(results)
    /\ reader' = KeepsObject(reader, results)
    /\ Move("control", "c_dsk")
    /\ UNCHANGED <<_results, _dsk, active, graph, now, tmp, ghost>>

ClearDsk ==
    /\ pc["control"] = "c_dsk"
    /\ _dsk' = EmptyDict
    /\ Move("control", "done")
    /\ UNCHANGED <<_results, results, reader, active, graph, now, tmp, ghost>>

\* The pending tables and logs an execution can have left when _finish is
\* called: nothing, one or two tasks, started or completed; no or one
\* earlier record.
EntryA3 == PendingEntry("a", G1, 0)
EntryA5 == Extended(EntryA3, 1, "w1")
EntryB3 == PendingEntry("b", G1, 0)
EntryB5 == Extended(EntryB3, 1, "w2")
RaceTables ==
    { EmptyDict,
      Inserted(EmptyDict, "a", EntryA3),
      SetItem(EmptyDict, "a", EntryA5),
      SetItem(SetItem(EmptyDict, "a", EntryA5), "b", EntryB3),
      SetItem(SetItem(EmptyDict, "a", EntryA5), "b", EntryB5) }
RaceLogs == { << >>, <<TaskData(Extended(EntryB3, 0, "w1"))>> }

InitRace ==
    /\ _results \in RaceTables
    /\ results \in RaceLogs
    /\ reader = LiveRef
    /\ _dsk = Copy(G1)
    /\ active = Registered
    /\ graph = G1
    /\ now = 1
    /\ pc = [r \in Racers |-> IF r = "engine" THEN "f_begin" ELSE "c_table"]
    /\ tmp = RaceLocals
    /\ last = [op |-> "posttask", key |-> "a", raised |-> FALSE, wasActive |-> TRUE]
    /\ nBefore = Len(results)
    /\ trace = NoTrace
    /\ stale = FALSE
    /\ nsteps = 0
    /\ inflight = {}

NextRace ==
    \/ FinishBegin
    \/ FinishIter
    \/ FinishExtend
    \/ FinishClear
    \/ ClearTable
    \/ ClearLog
    \/ ClearDsk

SpecRace == InitRace /\ [][NextRace]_vars

\* ---------------------------------------------------------------- reading
\* The log as a reader gets it: the results attribute.
GetResults == results

\* The last call was _finish: the state onFinish leaves.
JustFinished == last.op = "finish"
\* The places in the log of the records the last call appended.
NewIdx == (nBefore + 1) .. Len(results)
RecordsFor(k) == {i \in NewIdx : results[i][1] = k}
\* The task callbacks for key k in the latest execution.
EventsOf(k) == SelectSeq(trace, LAMBDA e : e.key = k)
LastIs(k, op) == LET ev == EventsOf(k) IN Len(ev) >= 1 /\ ev[Len(ev)].op = op
\* The last two callbacks for k were onTaskStart, then onTaskFinish.
LastPair(k) ==
    LET ev == EventsOf(k)
    IN  Len(ev) >= 2 /\ ev[Len(ev) - 1].op = "S" /\ ev[Len(ev)].op = "F"
\* Some onTaskStart for k was followed by some onTaskFinish for k.
SomePair(k) ==
    LET ev == EventsOf(k)
    IN  \E i, j \in DOMAIN ev : i < j /\ ev[i].op = "S" /\ ev[j].op = "F"
FirstStart(k) ==
    CHOOSE i \in DOMAIN trace :
        /\ trace[i].key = k /\ trace[i].op = "S"
        /\ \A j \in 1 .. (i - 1) : ~(trace[j].key = k /\ trace[j].op = "S")
LastFinish(k) ==
    CHOOSE i \in DOMAIN trace :
        /\ trace[i].key = k /\ trace[i].op = "F"
        /\ \A j \in (i + 1) .. Len(trace) : ~(trace[j].key = k /\ trace[j].op = "F")
IsPrefix(s, t) == Len(s) <= Len(t) /\ SubSeq(t, 1, Len(s)) = s
AllEmpty == _results = EmptyDict /\ results = << >> /\ _dsk = EmptyDict
Tasks == {"add", "mul"}

\* ------------------------------------------------------------------ claims

\* C1 as stated: whenever some onTaskStart(k, g) was followed by an
\* onTaskFinish(k, v, g, w) in the execution, onFinish appends exactly one
\* record for k, with the task and the worker id of such a pair.
C1_AnyPairRecorded ==
    JustFinished =>
        \A k \in Keys : SomePair(k) =>
            /\ Cardinality(RecordsFor(k)) = 1
            /\ LET ev == EventsOf(k)
               IN  \E i, j \in DOMAIN ev :
                     /\ i < j /\ ev[i].op = "S" /\ ev[j].op = "F"
                     /\ \A r \in RecordsFor(k) :
                          results[r][2] = ev[i].task /\ results[r][5] = ev[j].id

\* C1 amended: when the last two task callbacks for k in the execution are
\* onTaskStart(k, g) and then onTaskFinish(k, v, g, w), onFinish appends
\* exactly one record for k, with task = g[k] and worker_id = w.
C1_LastPairRecorded ==
    JustFinished =>
        \A k \in Keys : LastPair(k) =>
            LET ev == EventsOf(k)
            IN  /\ Cardinality(RecordsFor(k)) = 1
                /\ \A r \in RecordsFor(k) :
                     /\ results[r][2] = ev[Len(ev) - 1].task
                     /\ results[r][5] = ev[Len(ev)].id

C1_Witness ==
    /\ JustFinished
    /\ \E k \in Keys : LastPair(k) /\ Cardinality(RecordsFor(k)) = 1

\* C2: an onTaskFinish for a key with no onTaskStart in the current
\* execution does not raise and changes neither the pending table nor the
\* log.
C2_FinishWithoutStartIsNoOp ==
    [][\A key \in Keys, id \in Workers, end \in Readings :
          (/\ _posttask(key, id, end)
           /\ ~\E i \in DOMAIN Current :
                 Current[i].key = key /\ Current[i].op = "S")
          => (~last'.raised /\ UNCHANGED <<_results, results>>)]_vars

\* C3: a key whose last task callback before onFinish is an onTaskStart
\* (started, not finished) gets no record from that onFinish, and onFinish
\* does not raise.
C3_UnfinishedDropped ==
    JustFinished =>
        /\ ~last.raised
        /\ \A k \in Keys : LastIs(k, "S") => RecordsFor(k) = {}

C3_Witness ==
    /\ JustFinished
    /\ \E k \in Keys : LastIs(k, "S") /\ RecordsFor(k) = {}

\* C4: right after clear() the log, the pending table and the graph
\* snapshot are empty, and a reader gets an empty sequence.
C4_ClearEmptiesAll ==
    last.op = "clear" => (AllEmpty /\ GetResults = << >>)

C4_Witness == last.op = "clear" /\ nBefore > 0 /\ AllEmpty

\* C5: right after start() (scope entry) the log, the pending table and the
\* graph snapshot are empty, as after clear().
C5_EnterResets ==
    last.op = "enter" => AllEmpty

\* A scope entered again while registered, the log holding records.
C5_Witness ==
    last.op = "enter" /\ last.wasActive /\ nBefore > 0 /\ AllEmpty

\* C6: stop() (scope exit) changes neither the log, nor the pending table,
\* nor the graph snapshot.
C6_ExitKeepsState ==
    [][(last'.op = "exit" /\ nsteps' = nsteps + 1)
          => UNCHANGED <<_results, results, _dsk>>]_vars

C6_Witness == last.op = "exit" /\ GetResults # << >> /\ ~active

\* C7: every step other than clear() and start() leaves the log it found
\* as a prefix of the log it leaves.
C7_LogAppendOnly ==
    [][clear \/ __enter__ \/ IsPrefix(results, results')]_vars

\* A second execution's records appended after those of an earlier one.
C7_Witness ==
    JustFinished /\ nBefore > 0 /\ Len(results) > nBefore

\* C8 as stated: the records onFinish appends are in the order of their
\* keys' onTaskFinish calls.
C8_FinishOrder ==
    JustFinished =>
        \A x, y \in Keys :
            (/\ RecordsFor(x) # {} /\ RecordsFor(y) # {}
             /\ LastFinish(x) < LastFinish(y))
            => \A i \in RecordsFor(x), j \in RecordsFor(y) : i < j

\* C8 amended: the records onFinish appends are in the order in which their
\* keys entered the pending table, the order of each key's first
\* onTaskStart of the execution.
C8_InsertionOrder ==
    JustFinished =>
        \A x, y \in Keys :
            (/\ RecordsFor(x) # {} /\ RecordsFor(y) # {}
             /\ FirstStart(x) < FirstStart(y))
            => \A i \in RecordsFor(x), j \in RecordsFor(y) : i < j

\* a started before b, b finished before a, a's record comes first.
C8_Witness ==
    /\ JustFinished
    /\ RecordsFor("a") # {} /\ RecordsFor("b") # {}
    /\ FirstStart("a") < FirstStart("b")
    /\ LastFinish("b") < LastFinish("a")
    /\ \A i \in RecordsFor("a"), j \in RecordsFor("b") : i < j

\* C9: every element of the log is a 5-tuple of a key, a task, a start
\* time, an end time and a worker id.
C9_LogHoldsFullRecords ==
    \A i \in DOMAIN results :
        /\ Len(results[i]) = 5
        /\ results[i][1] \in Keys
        /\ results[i][2] \in Tasks
        /\ results[i][3] \in 0 .. MaxTime
        /\ results[i][4] \in 0 .. MaxTime
        /\ results[i][5] \in Workers

\* A partial entry was pending when onFinish appended a record.
C9_Witness ==
    /\ JustFinished
    /\ NewIdx # {}
    /\ \E k \in Keys : LastIs(k, "S")

\* C10: once both workers have run their callbacks, in any interleaving
\* of their steps, onFinish leaves exactly two records, each holding its own
\* worker's key, task, start time, end time and worker id.
C10_TwoIndependentRecords ==
    (WorkersDone /\ JustFinished) =>
        /\ Len(results) = 2
        /\ \A t \in Threads :
             \E i \in DOMAIN results :
                results[i] = <<KeyOf[t], GetItem(graph, KeyOf[t]),
                               tmp[t].start, tmp[t].end, IdOf[t]>>

\* Both records written, the two tasks having run at overlapping times.
C10_Witness ==
    /\ WorkersDone /\ JustFinished
    /\ Len(results) = 2
    /\ tmp["T1"].start < tmp["T2"].end
    /\ tmp["T2"].start < tmp["T1"].end

\* C11: whenever clear() or start() is called in a callback stream, also
\* between the onTaskStart and the onTaskFinish of a task in flight, the
\* later callbacks do not raise: the onTaskFinish of a task the engine has
\* started and not yet finished never raises.
C11_ClearSafeMidStream ==
    [][\A key \in Keys, id \in Workers, end \in Readings :
          (_posttask(key, id, end) /\ key \in inflight) => ~last'.raised]_vars

\* C12: onGraphStart, onTaskStart and onTaskFinish leave the log as it is,
\* and the log grows only in onFinish; while an execution is in progress a
\* reader gets the log without the records of that execution.
C12_OnlyFinishAddsRecords ==
    [][/\ (last'.op \in {"start", "pretask", "posttask"} /\ nsteps' = nsteps + 1)
            => results' = results
       /\ Len(results') > Len(results) => last'.op = "finish"]_vars

\* A task of the second execution is complete in the pending table; the
\* reader gets the first execution's records only.
C12_Witness ==
    /\ last.op = "posttask" /\ ~last.raised
    /\ Len(GetItem(_results, last.key)) = 5
    /\ nBefore > 0
    /\ Len(GetResults) = nBefore
    /\ \A i \in DOMAIN GetResults : GetResults[i] # TaskData(GetItem(_results, last.key))

\* The last three callbacks for k were onTaskStart, onTaskStart, onTaskFinish.
StartedTwice(k) ==
    LET ev == EventsOf(k)
    IN  Len(ev) >= 3 /\ ev[Len(ev) - 2].op = "S" /\ LastPair(k)

\* C13: when onTaskStart(k) is called twice and then onTaskFinish(k), the
\* second onTaskStart returns and onFinish appends one record for k, which
\* holds the task and the start time of the second onTaskStart.
C13_LastStartWins ==
    JustFinished =>
        \A k \in Keys : StartedTwice(k) =>
            LET ev == EventsOf(k)
            IN  /\ Cardinality(RecordsFor(k)) = 1
                /\ \A r \in RecordsFor(k) :
                     /\ results[r][2] = ev[Len(ev) - 1].task
                     /\ results[r][3] = ev[Len(ev) - 1].t

\* The two starts differ in time and the record holds the later one.
C13_Witness ==
    /\ JustFinished
    /\ \E k \in Keys :
         /\ StartedTwice(k)
         /\ LET ev == EventsOf(k)
            IN  /\ ev[Len(ev) - 2].t < ev[Len(ev) - 1].t
                /\ \E r \in RecordsFor(k) : results[r][3] = ev[Len(ev) - 1].t

\* C14: onFinish leaves the pending table empty, and every record it
\* appends belongs to a key whose last two callbacks since the table was
\* last emptied were onTaskStart and onTaskFinish: an onFinish with no task
\* callback since the last one appends nothing, and an entry of an earlier
\* execution is never reported.
C14_FinishEmptiesTable ==
    JustFinished =>
        /\ _results = EmptyDict
        /\ \A i \in NewIdx : LastPair(results[i][1])

\* A second onFinish with no task callback in between: the log is as the
\* first one left it.
C14_Witness ==
    /\ JustFinished
    /\ trace = NoTrace
    /\ nBefore > 0
    /\ Len(results) = nBefore
    /\ _results = EmptyDict

\* C15: one onFinish appends at most one record per key, however many
\* onTaskStart and onTaskFinish calls the key received.
C15_OneRecordPerKey ==
    JustFinished => \A k \in Keys : Cardinality(RecordsFor(k)) <= 1

\* A key started and finished twice in one execution has one record.
C15_Witness ==
    /\ JustFinished
    /\ \E k \in Keys : Len(EventsOf(k)) >= 4 /\ Cardinality(RecordsFor(k)) = 1

\* Both clear() and _finish have returned (or _finish has raised).
RaceOver == pc["control"] = "done" /\ pc["engine"] \in {"done", "raised"}

\* C16: clear() on the controlling thread and onFinish on the engine
\* thread are serialized.  In either order the log, the pending table and
\* the snapshot end empty: no record that was pending before clear() is in
\* the log once both have returned.
C16_ClearFinishSerialized ==
    RaceOver => (AllEmpty /\ GetResults = << >>)

\* C17: onGraphStart(g) makes the snapshot a copy of g as of the call;
\* afterwards edits of the engine's graph and the task and finish callbacks
\* leave the snapshot as it is, and only onGraphStart, clear() and start()
\* change it.
C17_SnapshotIsCopy ==
    [][/\ _start => Snapshot' = graph
       /\ Snapshot' # Snapshot => (_start \/ clear \/ __enter__)]_vars
\* After onGraphStart the engine's graph was edited, and the snapshot still
\* has the mapping of the call.
C17_Witness ==
    /\ last.op = "start"
    /\ Snapshot # EmptyDict
    /\ Snapshot # graph

\* C18: with a clock that never goes back, every record of the log has
\* end_time >= start_time, whatever the callbacks were.
C18_EndNotBeforeStart ==
    \A i \in DOMAIN GetResults : GetResults[i][4] >= GetResults[i][3]
\* A record of a key that was started twice, whose end is later than its
\* start.
C18_Witness ==
    /\ JustFinished
    /\ \E i \in NewIdx :
          /\ StartedTwice(results[i][1])
          /\ results[i][4] > results[i][3]

\* The number of onTaskFinish(k) callbacks since the last onTaskStart(k).
FinishesSinceStart(k) ==
    LET ev == EventsOf(k)
    IN  Cardinality({j \in DOMAIN ev : \A i \in j .. Len(ev) : ev[i].op = "F"})
\* onTaskFinish(k) was called again after k's start/finish pair.
DoubleFinish(k) == FinishesSinceStart(k) >= 2
\* onTaskStart(k) was called again after k's start/finish pair, and k was
\* not finished again.
Restarted(k) == SomePair(k) /\ LastIs(k, "S")

\* C19: when onTaskFinish(k) came a second time after one onTaskStart(k),
\* or onTaskStart(k) came again after k's pair and k was not finished again,
\* onFinish returns without raising and appends no record for k.
C19_CompletedEntryNotKept ==
    JustFinished =>
        /\ ~last.raised
        /\ \A k \in Keys :
              (DoubleFinish(k) \/ Restarted(k)) => RecordsFor(k) = {}
\* onFinish after onTaskStart(k), onTaskFinish(k), onTaskFinish(k).
C19_Witness ==
    /\ JustFinished
    /\ \E k \in Keys : DoubleFinish(k) /\ RecordsFor(k) = {}

\* C20: the sequence a reader got from the profiler is the profiler's log
\* itself for the profiler's lifetime: a later clear() or start() empties
\* it in place, and it shows the records a later onFinish appends.
C20_ReaderHoldsTheLog ==
    Held = GetResults
\* The reader's sequence had the records of a first execution, and clear()
\* has emptied it.
C20_Witness ==
    /\ last.op = "clear"
    /\ nBefore > 0
    /\ Held = << >>

====
